---- MODULE Spec2Model ----
(***************************************************************************)
(* A model of speedbar/middleware.py: the SpeedbarMiddleware request and   *)
(* response hooks, the signal connections made at import time, and the     *)
(* two pure helpers add_response_headers and                               *)
(* replace_templatetag_placeholders.                                       *)
(*                                                                         *)
(* Text is modelled as a sequence of tokens.  A token is a one-character   *)
(* string, or one of the three literal pieces of METRIC_PLACEHOLDER_RE     *)
(*   OPEN  = <span data-module="                                           *)
(*   MID   = " data-metric="                                               *)
(*   CLOSE = "></span>                                                     *)
(* which are the only tokens that hold a double quote, or the URL that     *)
(* reverse('speedbar_details_for_this_request') returns (PANELPH).         *)
(***************************************************************************)
EXTENDS Integers, Sequences, FiniteSets, TLC

\* ------------------------------------------------------------------------
\* Text helpers
\* ------------------------------------------------------------------------

LowerAlpha == <<"a","b","c","d","e","f","g","h","i","j","k","l","m",
                "n","o","p","q","r","s","t","u","v","w","x","y","z">>

UpperAlpha == <<"A","B","C","D","E","F","G","H","I","J","K","L","M",
                "N","O","P","Q","R","S","T","U","V","W","X","Y","Z">>

Lowers == {LowerAlpha[i] : i \in 1..Len(LowerAlpha)}

Uppers == {UpperAlpha[i] : i \in 1..Len(UpperAlpha)}

UpperOf == [c \in Lowers |-> UpperAlpha[CHOOSE i \in 1..Len(LowerAlpha) : LowerAlpha[i] = c]]

LowerOf == [c \in Uppers |-> LowerAlpha[CHOOSE i \in 1..Len(UpperAlpha) : UpperAlpha[i] = c]]

IsCased(c) == c \in Lowers \/ c \in Uppers

ToUpper(c) == IF c \in Lowers THEN UpperOf[c] ELSE c

ToLower(c) == IF c \in Uppers THEN LowerOf[c] ELSE c

\* str.title(): a cased character is upper-cased when the character before
\* it is not cased (or there is none), and lower-cased otherwise.
Title(s) ==
    [i \in 1..Len(s) |->
        IF IsCased(s[i])
        THEN IF i > 1 /\ IsCased(s[i-1]) THEN ToLower(s[i]) ELSE ToUpper(s[i])
        ELSE s[i]]

\* str.replace(old, new) for a one-character old and new.
ReplaceChar(s, old, new) == [i \in 1..Len(s) |-> IF s[i] = old THEN new ELSE s[i]]

\* sanitize of add_response_headers: string.title().replace(' ', '-')
sanitize(string) == ReplaceChar(Title(string), " ", "-")

Digits == <<"0","1","2","3","4","5","6","7","8","9">>

\* unicode(value) of a non-negative integer: its decimal digits.
RECURSIVE ToStr(_)
ToStr(n) == IF n < 10 THEN <<Digits[n + 1]>> ELSE ToStr(n \div 10) \o <<Digits[(n % 10) + 1]>>

\* ------------------------------------------------------------------------
\* METRIC_PLACEHOLDER_RE and replace_templatetag_placeholders
\* ------------------------------------------------------------------------

OPEN == "OPEN"

MID == "MID"

CLOSE == "CLOSE"

PANELPH == "PANELPH"

\* The tokens that hold a double quote: [^"]+ matches none of them.
QuoteTokens == {OPEN, MID, CLOSE}

\* The first position >= i of s that holds a quote token, Len(s)+1 if none:
\* where a greedy [^"]+ that starts at i stops.
RECURSIVE NameEnd(_, _)
NameEnd(s, i) ==
    IF i > Len(s) \/ s[i] \in QuoteTokens THEN i ELSE NameEnd(s, i + 1)

\* METRIC_PLACEHOLDER_RE.match at position i of s.
MatchAt(s, i) ==
    LET j == NameEnd(s, i + 1)
        k == NameEnd(s, j + 1)
    IN  IF /\ i <= Len(s) /\ s[i] = OPEN
           /\ j > i + 1 /\ j <= Len(s) /\ s[j] = MID
           /\ k > j + 1 /\ k <= Len(s) /\ s[k] = CLOSE
        THEN [ok |-> TRUE, module |-> SubSeq(s, i + 1, j - 1),
              metric |-> SubSeq(s, j + 1, k - 1), start |-> i, end |-> k]
        ELSE [ok |-> FALSE, module |-> <<>>, metric |-> <<>>, start |-> i, end |-> i]

\* The matches re.sub visits: leftmost first, never overlapping, the scan
\* resuming right after each match.
RECURSIVE Matches(_, _)
Matches(s, i) ==
    IF i > Len(s) THEN <<>>
    ELSE LET m == MatchAt(s, i)
         IN  IF m.ok THEN <<m>> \o Matches(s, m.end + 1) ELSE Matches(s, i + 1)

\* metrics[module][metric] raises KeyError when either lookup misses.
HasKey(metrics, module, metric) ==
    module \in DOMAIN metrics /\ metric \in DOMAIN metrics[module]

NA == <<"N", "/", "A">>

\* Faulty variant: a lookup miss yields a fallback text instead of raising.
replace_placeholderDefault(match, metrics) ==
    IF HasKey(metrics, match.module, match.metric)
    THEN [raised |-> FALSE, text |-> ToStr(metrics[match.module][match.metric])]
    ELSE [raised |-> FALSE, text |-> NA]

replace_placeholder(match, metrics) ==
    IF HasKey(metrics, match.module, match.metric)
    THEN [raised |-> FALSE, text |-> ToStr(metrics[match.module][match.metric])]
    ELSE [raised |-> TRUE, text |-> <<>>]

\* Faulty variant: only the first match is replaced (sub with count=1).
SubFromFirstOnly(s, i, metrics) ==
    IF i > Len(s) THEN <<>>
    ELSE LET ms == Matches(s, i)
         IN  IF ms = <<>> THEN SubSeq(s, i, Len(s))
             ELSE SubSeq(s, i, ms[1].start - 1)
                      \o replace_placeholder(ms[1], metrics).text
                      \o SubSeq(s, ms[1].end + 1, Len(s))

\* METRIC_PLACEHOLDER_RE.sub(replace_placeholder, content) from position i:
\* the text between matches is copied, each match is replaced by what the
\* callback returns, and the callback's text is not scanned again.
RECURSIVE SubFrom(_, _, _)
SubFrom(s, i, metrics) ==
    IF i > Len(s) THEN <<>>
    ELSE LET m == MatchAt(s, i)
         IN  IF m.ok
             THEN replace_placeholder(m, metrics).text \o SubFrom(s, m.end + 1, metrics)
             ELSE <<s[i]>> \o SubFrom(s, i + 1, metrics)

SubRaises(s, metrics) ==
    LET ms == Matches(s, 1)
    IN  \E n \in 1..Len(ms) : replace_placeholder(ms[n], metrics).raised

\* The result of the call: raised (the KeyError leaves the function and no
\* content is returned) or the substituted content.
replace_templatetag_placeholders(content, metrics) ==
    IF SubRaises(content, metrics)
    THEN [raised |-> TRUE, content |-> <<>>]
    ELSE [raised |-> FALSE, content |-> SubFrom(content, 1, metrics)]

\* ------------------------------------------------------------------------
\* Response headers and add_response_headers
\* ------------------------------------------------------------------------

\* response[name] = value on a header map (header name -> value text).
Put(h, name, value) ==
    [x \in (DOMAIN h) \cup {name} |-> IF x = name THEN value ELSE h[x]]

\* response.get(name, default)
Get(h, name, default) == IF name \in DOMAIN h THEN h[name] ELSE default

\* 'X-Speedbar-%s-%s' % (sanitize(module), sanitize(key))
HeaderName(module, key) ==
    <<"X-Speedbar-">> \o sanitize(module) \o <<"-">> \o sanitize(key)

\* The (module, metric) pairs of a snapshot.
Pairs(metrics) ==
    UNION {{<<m, k>> : k \in DOMAIN metrics[m]} : m \in DOMAIN metrics}

\* The orders in which the nested loops over metrics.items() and
\* module_values.items() can visit the pairs: a dict fixes no order, the
\* pairs of one module are visited together.
ItemOrders(metrics) ==
    LET P == Pairs(metrics)
        n == Cardinality(P)
    IN  {o \in [1..n -> P] :
            /\ \A i, j \in 1..n : i # j => o[i] # o[j]
            /\ \A i, j, k \in 1..n :
                   (i < j /\ j < k /\ o[i][1] = o[k][1]) => o[j][1] = o[i][1]}

\* add_response_headers, the loops visiting the pairs in the given order;
\* a header value is stored in its string form.
RECURSIVE add_response_headers(_, _, _)
add_response_headers(headers, metrics, order) ==
    IF order = <<>> THEN headers
    ELSE LET p == Head(order)
         IN  add_response_headers(
                 Put(headers, HeaderName(p[1], p[2]), ToStr(metrics[p[1]][p[2]])),
                 metrics, Tail(order))

\* ------------------------------------------------------------------------
\* Text encodings: smart_unicode and smart_str
\* ------------------------------------------------------------------------

\* The two bytes of the UTF-8 form of the one non-ASCII character modelled.
B1 == "\\xc3"

B2 == "\\xa9"

EACUTE == "e-acute"

\* Whether a byte string is valid UTF-8: B1 is followed by B2, B2 follows B1.
RECURSIVE Decodable(_)
Decodable(b) ==
    IF b = <<>> THEN TRUE
    ELSE IF Head(b) = B1 THEN Len(b) >= 2 /\ b[2] = B2 /\ Decodable(Tail(Tail(b)))
    ELSE Head(b) # B2 /\ Decodable(Tail(b))

\* smart_unicode(bytes): the UTF-8 decoding (of a decodable byte string).
RECURSIVE smart_unicode(_)
smart_unicode(b) ==
    IF b = <<>> THEN <<>>
    ELSE IF Head(b) = B1 /\ Len(b) >= 2 THEN <<EACUTE>> \o smart_unicode(Tail(Tail(b)))
    ELSE <<Head(b)>> \o smart_unicode(Tail(b))

\* smart_str(text): the UTF-8 encoding.
RECURSIVE smart_str(_)
smart_str(u) ==
    IF u = <<>> THEN <<>>
    ELSE IF Head(u) = EACUTE THEN <<B1, B2>> \o smart_str(Tail(u))
    ELSE <<Head(u)>> \o smart_str(Tail(u))

\* content.replace(old, new) for a one-token old.
RECURSIVE ReplaceToken(_, _, _)
ReplaceToken(s, old, new) ==
    IF s = <<>> THEN <<>>
    ELSE (IF Head(s) = old THEN new ELSE <<Head(s)>>) \o ReplaceToken(Tail(s), old, new)

\* reverse(name, args=[id]): the URL of the named view for a trace identity.
reverse(name, id) == <<name>> \o ToStr(id)

\* ------------------------------------------------------------------------
\* Settings, modules, requests and responses
\* ------------------------------------------------------------------------

\* The worker threads that handle requests.
Threads == {1, 2}

\* The number of RequestTrace objects created in one run.
MaxTraces == 2

\* The number of operations the modules of one trace record before the
\* response is processed.
MaxActivity == 1

\* django.conf.settings: the SPEEDBAR_ options, fixed for the process. An
\* option the project does not configure is not an attribute of settings.
OptionNames == {"ENABLE", "RESPONSE_HEADERS", "TRACE", "PANEL"}

\* The settings of a project that configures all four options.
SettingsSpace ==
    [ENABLE : BOOLEAN, RESPONSE_HEADERS : BOOLEAN, TRACE : BOOLEAN, PANEL : BOOLEAN]

\* The settings of a project that configures any of the options, or none.
OptionSettings == UNION {[D -> BOOLEAN] : D \in SUBSET OptionNames}

\* getattr(settings, 'SPEEDBAR_<name>', default)
getattr(st, name, default) == IF name \in DOMAIN st THEN st[name] ELSE default

\* getattr(settings, 'SPEEDBAR_ENABLE', True)
SPEEDBAR_ENABLE(st) == getattr(st, "ENABLE", TRUE)

\* getattr(settings, 'SPEEDBAR_RESPONSE_HEADERS', False)
SPEEDBAR_RESPONSE_HEADERS(st) == getattr(st, "RESPONSE_HEADERS", FALSE)

\* getattr(settings, 'SPEEDBAR_TRACE', True)
SPEEDBAR_TRACE(st) == getattr(st, "TRACE", TRUE)

\* Faulty variant: the panel is injected only when the trace header is on too.
SPEEDBAR_PANELWithTrace(st) == getattr(st, "PANEL", TRUE) /\ getattr(st, "TRACE", TRUE)

\* getattr(settings, 'SPEEDBAR_PANEL', True)
SPEEDBAR_PANEL(st) == getattr(st, "PANEL", TRUE)

DB == <<"d", "b">>

TPL == <<"t", "e", "m", "p", "l", "a", "t", "e", "s">>

QUERY_COUNT == <<"q", "u", "e", "r", "y", " ", "c", "o", "u", "n", "t">>

RENDER_COUNT == <<"c", "o", "u", "n", "t">>

\* The registered module types, in registration order: the order of
\* request_trace.modules.items().
ModuleOrder == <<DB, TPL>>

ModuleKeys == {ModuleOrder[i] : i \in 1..Len(ModuleOrder)}

\* module.get_metrics(): the summary of a module instance that has recorded
\* count operations.
get_metrics(key, count) ==
    IF key = DB THEN (QUERY_COUNT :> count) ELSE (RENDER_COUNT :> count)

XTRACEURL == <<"X-TraceUrl">>

CONTENT_TYPE == <<"Content-Type">>

CONTENT_ENCODING == <<"Content-Encoding">>

CONTENT_LENGTH == <<"Content-Length">>

HTML_TYPES == {<<"text/html">>, <<"application/xhtml+xml">>}

\* value.split(';')[0]: the tokens before the first ";".
RECURSIVE SplitFirst(_)
SplitFirst(v) ==
    IF v = <<>> \/ Head(v) = ";" THEN <<>> ELSE <<Head(v)>> \o SplitFirst(Tail(v))

\* 'gzip' in value
HasGzip(v) == \E i \in 1..Len(v) : v[i] = "gzip"

NoHeaders == [x \in {} |-> <<>>]

\* Faulty variant: only the encoding gzip itself counts as gzip.
NotGzipExact(headers) == Get(headers, CONTENT_ENCODING, <<>>) # <<"gzip">>

\* 'gzip' not in response.get('Content-Encoding', '')
NotGzip(headers) == ~HasGzip(Get(headers, CONTENT_ENCODING, <<>>))

\* A request: hasUser is hasattr(request, 'user'), isStaff is
\* request.user.is_staff.
MkRequest(method, hasUser, isStaff) ==
    [method |-> method, path |-> "/", hasUser |-> hasUser, isStaff |-> isStaff]

NoRequest == MkRequest("None", FALSE, FALSE)

\* A response: its headers, its content (bytes; for a lazy response that is
\* not rendered yet, what render() will produce), whether it has a render
\* method and whether it is rendered.
MkResponse(ctype, cenc, clen, body, lazy) ==
    [headers |->
        LET h0 == IF ctype = <<>> THEN NoHeaders ELSE Put(NoHeaders, CONTENT_TYPE, ctype)
            h1 == IF cenc = <<>> THEN h0 ELSE Put(h0, CONTENT_ENCODING, cenc)
        IN  IF clen THEN Put(h1, CONTENT_LENGTH, ToStr(Len(body))) ELSE h1,
     content |-> body, hasRender |-> lazy, rendered |-> ~lazy]

NoResponse == [headers |-> NoHeaders, content |-> <<>>, hasRender |-> FALSE, rendered |-> FALSE]

Marker(module, metric) == <<OPEN>> \o module \o <<MID>> \o metric \o <<CLOSE>>

\* Page bodies: plain text, a resolvable placeholder with the panel URL, a
\* placeholder of an unknown metric after a resolvable one, non-ASCII text,
\* and bytes that are not UTF-8.
BodyPlain == <<"h", "i">>

BodyPanel == <<"a">> \o Marker(DB, QUERY_COUNT) \o <<PANELPH>> \o Marker(TPL, RENDER_COUNT)

BodyMissing == Marker(DB, QUERY_COUNT) \o <<"b">> \o Marker(DB, <<"t", "i", "m", "e">>)

BodyAccent == <<B1, B2>> \o Marker(TPL, RENDER_COUNT)

BodyBroken == <<B2, "x">>

\* ------------------------------------------------------------------------
\* State
\* ------------------------------------------------------------------------

VARIABLES
    settings,     \* django.conf.settings (the SPEEDBAR_ options)
    threadLocal,  \* thread -> identity of the RequestTrace installed, 0 if none
    heap,         \* the RequestTrace objects created so far, by identity
    pc,           \* thread -> where its request is in the request cycle
    request,      \* thread -> the request in flight
    response,     \* thread -> the response object handed to process_response
    result,       \* thread -> how process_response ended
    seen,         \* thread -> the traces process_request / process_response got
    calls,        \* thread -> the get_metrics calls of process_response, in order
    snapshot,     \* thread -> the metrics built by process_response
    given,        \* thread -> that response as it was handed in
    faulty,       \* thread -> position of the module whose get_metrics raised, 0 if none
    store,        \* the writes made to the trace store, in order
    finished      \* thread -> its last finished request: the trace, how it ended

vars == <<settings, threadLocal, heap, pc, request, response, result, seen,
          calls, snapshot, given, faulty, store, finished>>

\* RequestTrace(): a fresh trace; label is stacktracer.root.label, request
\* and response name the thread whose objects they refer to (0: unset),
\* modules maps each module key to what its instance has recorded.
NewTrace(id) ==
    [id |-> id, label |-> <<"None", "None">>, request |-> 0, response |-> 0,
     persist_log |-> FALSE, persist_details |-> FALSE,
     modules |-> [m \in ModuleKeys |-> 0]]

RECURSIVE SumOver(_, _)
SumOver(f, S) ==
    IF S = {} THEN 0
    ELSE LET x == CHOOSE y \in S : TRUE IN f[x] + SumOver(f, S \ {x})

\* What the modules of a trace have recorded, in all.
Recorded(trace) == SumOver(trace.modules, ModuleKeys)

\* A trace no thread refers to any more: only its identity is kept.
Released(trace) == NewTrace(trace.id)

\* RequestTrace.instance() on thread t: the trace installed for the thread,
\* created and installed first when there is none.
instance(tl, hp, t) ==
    IF tl[t] # 0
    THEN [id |-> tl[t], tl |-> tl, hp |-> hp]
    ELSE [id |-> Len(hp) + 1, tl |-> [tl EXCEPT ![t] = Len(hp) + 1],
          hp |-> Append(hp, NewTrace(Len(hp) + 1))]

\* RequestTrace(...) in setup_request_tracing: a new trace replaces whatever
\* the thread had installed.
NewInstance(tl, hp, t) ==
    [id |-> Len(hp) + 1, tl |-> [tl EXCEPT ![t] = Len(hp) + 1],
     hp |-> Append(hp, NewTrace(Len(hp) + 1))]

\* The receivers connected at import time to request_started and
\* request_finished.
StartedReceivers(st) == IF SPEEDBAR_ENABLE(st) THEN {"setup_request_tracing"} ELSE {}

\* Faulty variant: store_request_trace is not connected to request_finished.
FinishedReceiversNone(st) == {}

FinishedReceivers(st) == IF SPEEDBAR_ENABLE(st) THEN {"store_request_trace"} ELSE {}

\* request_trace = RequestTrace.instance() in process_request
RequestTraceOfRequest(tl, hp, t) == instance(tl, hp, t)

\* Faulty variant: process_response works on the trace created last in the process.
RequestTraceOfResponseLatest(tl, hp, t) ==
    IF hp # <<>> THEN [id |-> Len(hp), tl |-> tl, hp |-> hp] ELSE instance(tl, hp, t)

\* Faulty variant: process_response constructs a trace of its own.
RequestTraceOfResponseFresh(tl, hp, t) == NewInstance(tl, hp, t)

\* request_trace = RequestTrace.instance() in process_response
RequestTraceOfResponse(tl, hp, t) == instance(tl, hp, t)

should_return_response_headers(st, req) == SPEEDBAR_RESPONSE_HEADERS(st)

\* Faulty variant: the staff check is left out.
should_return_trace_headerAnyUser(st, req) == req.hasUser /\ SPEEDBAR_TRACE(st)

should_return_trace_header(st, req) ==
    req.hasUser /\ req.isStaff /\ SPEEDBAR_TRACE(st)

\* Faulty variant: the staff check is left out.
should_replace_template_tagsAnyUser(st, req) == req.hasUser

should_replace_template_tags(st, req) == req.hasUser /\ req.isStaff

\* ------------------------------------------------------------------------
\* SpeedbarMiddleware.process_request and process_response
\* ------------------------------------------------------------------------

\* Faulty variant: process_request flags the trace for persistence.
process_requestPersist(trace, req, ref) ==
    [trace EXCEPT !.label = <<req.method, req.path>>, !.request = ref,
                  !.persist_log = TRUE]

\* The body of process_request once the trace is looked up: the root label
\* is '%s %s' % (method, path) and the trace refers to the thread's request.
process_request(trace, req, ref) ==
    [trace EXCEPT !.label = <<req.method, req.path>>, !.request = ref]

\* dict((key, module.get_metrics()) for key, module in modules.items()):
\* the modules are asked in registration order; failing > 0 is the position
\* of a module whose get_metrics raises, which ends the loop there.
CollectMetrics(trace, failing) ==
    [raised |-> failing # 0,
     calls |-> SubSeq(ModuleOrder, 1, IF failing = 0 THEN Len(ModuleOrder) ELSE failing),
     metrics |-> [m \in ModuleKeys |-> get_metrics(m, trace.modules[m])]]

\* Faulty variant: the metrics are collected again for the placeholders.
PlaceholderMetricsRebuilt(metrics, trace) ==
    [m \in ModuleKeys |-> get_metrics(m, trace.modules[m])]

\* The metrics handed to replace_templatetag_placeholders: the snapshot
\* built before the headers were written, whatever the trace holds by now.
PlaceholderMetrics(metrics, trace) == metrics

\* Faulty variant: the panel URL is built from the number of the thread.
panel_urlOfThread(trace) == reverse("speedbar_panel", trace.request)

\* panel_url = reverse('speedbar_panel', args=[request_trace.id])
panel_url(trace) == reverse("speedbar_panel", trace.id)

\* Faulty variant: the length is counted in characters of the text.
update_content_lengthOfText(headers, content) ==
    IF Get(headers, CONTENT_LENGTH, <<>>) # <<>>
    THEN Put(headers, CONTENT_LENGTH, ToStr(Len(smart_unicode(content))))
    ELSE headers

\* if response.get('Content-Length', None):
\*     response['Content-Length'] = len(response.content)
update_content_length(headers, content) ==
    IF Get(headers, CONTENT_LENGTH, <<>>) # <<>>
    THEN Put(headers, CONTENT_LENGTH, ToStr(Len(content)))
    ELSE headers

\* process_response with SPEEDBAR_ENABLE on, the trace looked up: what it
\* leaves in the trace and in the response, how it ends (returned, or the
\* exception that leaves it), the get_metrics calls it made and its metrics.
\* ref names the response object, failing the module whose get_metrics
\* raises (0: none), order the order the metrics dict is iterated in.
process_response(st, trace, req, resp, ref, failing, order) ==
    LET t1 == [trace EXCEPT !.response = ref]
        col == CollectMetrics(t1, failing)
        metrics == col.metrics
        h1 == IF should_return_response_headers(st, req)
              THEN add_response_headers(resp.headers, metrics, order)
              ELSE resp.headers
        traced == should_return_trace_header(st, req)
        h2 == IF traced THEN Put(h1, XTRACEURL, reverse("speedbar_trace", trace.id)) ELSE h1
        t2 == IF traced THEN [t1 EXCEPT !.persist_log = TRUE] ELSE t1
        rewrite == /\ should_replace_template_tags(st, req)
                   /\ NotGzip(h2)
                   /\ SplitFirst(Get(h2, CONTENT_TYPE, <<>>)) \in HTML_TYPES
        \* response.render() renders a lazy response once; the template
        \* module records the rendering in the trace
        t3 == IF resp.hasRender /\ ~resp.rendered
              THEN [t2 EXCEPT !.modules[TPL] = @ + 1] ELSE t2
        r3 == [resp EXCEPT !.headers = h2, !.rendered = (resp.hasRender \/ @)]
        decodable == Decodable(resp.content)
        sub == replace_templatetag_placeholders(smart_unicode(resp.content),
                                                PlaceholderMetrics(metrics, t3))
        c2 == IF SPEEDBAR_PANEL(st)
              THEN ReplaceToken(sub.content, PANELPH, panel_url(trace))
              ELSE sub.content
        t4 == IF SPEEDBAR_PANEL(st) THEN [t3 EXCEPT !.persist_details = TRUE] ELSE t3
        bytes == smart_str(c2)
        h3 == update_content_length(h2, bytes)
        base == [trace |-> t1, response |-> resp, result |-> "returned",
                 calls |-> col.calls, built |-> FALSE, metrics |-> metrics]
    IN  IF col.raised
        THEN [base EXCEPT !.result = "ModuleError"]
        ELSE IF ~rewrite
        THEN [base EXCEPT !.trace = t2, !.response = [resp EXCEPT !.headers = h2],
                          !.built = TRUE]
        ELSE IF ~decodable
        THEN [base EXCEPT !.trace = t3, !.response = r3, !.built = TRUE,
                          !.result = "DecodeError"]
        ELSE IF sub.raised
        THEN [base EXCEPT !.trace = t3, !.response = r3, !.built = TRUE,
                          !.result = "KeyError"]
        ELSE [base EXCEPT !.trace = t4, !.built = TRUE,
                          !.response = [r3 EXCEPT !.content = bytes, !.headers = h3]]

\* ------------------------------------------------------------------------
\* The request cycle
\* ------------------------------------------------------------------------

NoMetrics == [m \in {} |-> 0]

NoSeen == [req |-> 0, resp |-> 0]

Init ==
    /\ settings \in SettingsSpace
    /\ threadLocal = [t \in Threads |-> 0]
    /\ heap = <<>>
    /\ pc = [t \in Threads |-> "idle"]
    /\ request = [t \in Threads |-> NoRequest]
    /\ response = [t \in Threads |-> NoResponse]
    /\ result = [t \in Threads |-> "none"]
    /\ seen = [t \in Threads |-> NoSeen]
    /\ calls = [t \in Threads |-> <<>>]
    /\ snapshot = [t \in Threads |-> NoMetrics]
    /\ given = [t \in Threads |-> NoResponse]
    /\ faulty = [t \in Threads |-> 0]
    /\ store = <<>>
    /\ finished = [t \in Threads |-> [trace |-> 0, phase |-> "none"]]

\* The handler takes up a request on thread t and sends request_started
\* (signalled); a caller that drives the middleware itself sends no signal.
\* setup_request_tracing installs a new trace for the thread.
RequestStarted(t, req, signalled) ==
    /\ pc[t] = "idle"
    /\ Len(heap) < MaxTraces
    /\ pc' = [pc EXCEPT ![t] = "started"]
    /\ request' = [request EXCEPT ![t] = req]
    /\ IF signalled /\ "setup_request_tracing" \in StartedReceivers(settings)
       THEN LET r == NewInstance(threadLocal, heap, t)
            IN  threadLocal' = r.tl /\ heap' = r.hp
       ELSE UNCHANGED <<threadLocal, heap>>
    /\ UNCHANGED <<settings, response, result, seen, calls, snapshot, given, faulty, store, finished>>

\* SpeedbarMiddleware.process_request(request) on thread t.
ProcessRequest(t) ==
    /\ pc[t] = "started"
    /\ pc' = [pc EXCEPT ![t] = "processing"]
    /\ IF SPEEDBAR_ENABLE(settings)
       THEN LET r == RequestTraceOfRequest(threadLocal, heap, t)
            IN  /\ r.id <= MaxTraces
                /\ threadLocal' = r.tl
                /\ heap' = [r.hp EXCEPT ![r.id] = process_request(@, request[t], t)]
                /\ seen' = [seen EXCEPT ![t].req = r.id]
       ELSE UNCHANGED <<threadLocal, heap, seen>>
    /\ UNCHANGED <<settings, request, response, result, calls, snapshot, given, faulty, store, finished>>

\* An instrumented subsystem is used while thread t works on its request:
\* the module instance of the thread's trace records it.
ModuleActivity(t, m) ==
    /\ pc[t] = "processing"
    /\ threadLocal[t] # 0
    /\ Recorded(heap[threadLocal[t]]) < MaxActivity
    /\ heap' = [heap EXCEPT ![threadLocal[t]].modules[m] = @ + 1]
    /\ UNCHANGED <<settings, threadLocal, pc, request, response, result, seen, calls,
                   snapshot, given, faulty, store, finished>>

\* The request fails in a way that keeps process_response from being called.
RequestFails(t) ==
    /\ pc[t] = "processing"
    /\ pc' = [pc EXCEPT ![t] = "aborted"]
    /\ UNCHANGED <<settings, threadLocal, heap, request, response, result, seen, calls,
                   snapshot, given, faulty, store, finished>>

\* SpeedbarMiddleware.process_response(request, response) on thread t.
ProcessResponse(t, resp, failing) ==
    /\ pc[t] = "processing"
    /\ given' = [given EXCEPT ![t] = resp]
    /\ faulty' = [faulty EXCEPT ![t] = failing]
    /\ IF ~SPEEDBAR_ENABLE(settings)
       THEN /\ response' = [response EXCEPT ![t] = resp]
            /\ result' = [result EXCEPT ![t] = "returned"]
            /\ pc' = [pc EXCEPT ![t] = "responded"]
            /\ failing = 0
            /\ UNCHANGED <<threadLocal, heap, seen, calls, snapshot>>
       ELSE LET r == RequestTraceOfResponse(threadLocal, heap, t)
            IN  /\ r.id <= MaxTraces
                /\ \E order \in ItemOrders(CollectMetrics(r.hp[r.id], 0).metrics) :
                     LET out == process_response(settings, r.hp[r.id], request[t], resp,
                                                 t, failing, order)
                     IN  /\ threadLocal' = r.tl
                         /\ heap' = [r.hp EXCEPT ![r.id] = out.trace]
                         /\ seen' = [seen EXCEPT ![t].resp = r.id]
                         /\ response' = [response EXCEPT ![t] = out.response]
                         /\ result' = [result EXCEPT ![t] = out.result]
                         /\ calls' = [calls EXCEPT ![t] = out.calls]
                         /\ snapshot' = [snapshot EXCEPT ![t] =
                                            IF out.built THEN out.metrics ELSE NoMetrics]
                         /\ pc' = [pc EXCEPT ![t] =
                                      IF out.result = "returned" THEN "responded" ELSE "raised"]
    /\ UNCHANGED <<settings, request, store, finished>>

\* store_request_trace: the thread's trace is written to the store when one
\* of its persist flags is set, and the thread-local entry is cleared.
store_request_trace(t) ==
    LET id == threadLocal[t]
    IN  /\ store' = IF id # 0 /\ (heap[id].persist_log \/ heap[id].persist_details)
                    THEN Append(store, [id |-> id, log |-> heap[id].persist_log,
                                        details |-> heap[id].persist_details])
                    ELSE store
        /\ threadLocal' = [threadLocal EXCEPT ![t] = 0]

\* The request cycle of thread t ends, however the request went:
\* request_finished is sent.
RequestFinished(t) ==
    /\ pc[t] \in {"responded", "raised", "aborted"}
    /\ pc' = [pc EXCEPT ![t] = "idle"]
    /\ IF "store_request_trace" \in FinishedReceivers(settings)
       THEN store_request_trace(t)
       ELSE UNCHANGED <<store, threadLocal>>
    /\ finished' = [finished EXCEPT ![t] = [trace |-> threadLocal[t], phase |-> pc[t]]]
    /\ request' = [request EXCEPT ![t] = NoRequest]
    /\ response' = [response EXCEPT ![t] = NoResponse]
    /\ given' = [given EXCEPT ![t] = NoResponse]
    /\ faulty' = [faulty EXCEPT ![t] = 0]
    /\ result' = [result EXCEPT ![t] = "none"]
    /\ seen' = [seen EXCEPT ![t] = NoSeen]
    /\ calls' = [calls EXCEPT ![t] = <<>>]
    /\ snapshot' = [snapshot EXCEPT ![t] = NoMetrics]
    /\ heap' = IF threadLocal[t] # 0 /\ threadLocal'[t] = 0
               THEN [heap EXCEPT ![threadLocal[t]] = Released(@)]
               ELSE heap
    /\ UNCHANGED settings

\* A step of one of the threads of T: its request is drawn from Reqs and
\* is signalled or not as Signals says, its response is drawn from Resps,
\* and Fails holds the positions of the modules whose get_metrics may raise.
Step(T, Reqs, Signals, Resps, Fails) ==
    \E t \in T :
        \/ \E req \in Reqs, signalled \in Signals : RequestStarted(t, req, signalled)
        \/ ProcessRequest(t)
        \/ \E m \in ModuleKeys : ModuleActivity(t, m)
        \/ RequestFails(t)
        \/ \E resp \in Resps, failing \in Fails : ProcessResponse(t, resp, failing)
        \/ RequestFinished(t)

\* One thread, every combination of the settings, requests by an anonymous
\* client, a plain user and a staff user, and responses of every kind the
\* middleware tells apart.
AllRequests ==
    {MkRequest("GET", FALSE, FALSE), MkRequest("GET", TRUE, FALSE),
     MkRequest("GET", TRUE, TRUE)}

ContentTypes ==
    {<<"text/html">>, <<"text/html", ";", "charset=utf-8">>,
     <<"application/xhtml+xml">>, <<"application/json">>, <<>>}

ContentEncodings == {<<>>, <<"gzip">>, <<"x-", "gzip">>, <<"deflate">>}

Bodies == {BodyPlain, BodyPanel, BodyMissing, BodyAccent, BodyBroken}

\* A page whose Content-Length header is there and empty.
EmptyLength ==
    [MkResponse(<<"text/html">>, <<>>, FALSE, BodyPanel, FALSE)
         EXCEPT !.headers = Put(@, CONTENT_LENGTH, <<>>)]

\* Every content type and encoding for one lazy page, and every body, with
\* and without a Content-Length, lazy or not, for a plain HTML response.
AllResponses ==
    {MkResponse(ct, ce, TRUE, BodyPanel, TRUE) :
        ct \in ContentTypes, ce \in ContentEncodings}
    \cup
    {MkResponse(<<"text/html">>, <<>>, cl, body, lazy) :
        cl \in BOOLEAN, body \in Bodies, lazy \in BOOLEAN}
    \cup
    {EmptyLength}

Next == Step({1}, AllRequests, BOOLEAN, AllResponses, 0..Len(ModuleOrder))

Spec == Init /\ [][Next]_vars

\* Two threads under the handler's request cycle (every request is
\* signalled), the default settings and the settings with the master flag
\* off, a staff and an anonymous request, an HTML page and a page whose
\* placeholder cannot be resolved.
ThreadSettings ==
    {st \in SettingsSpace : st.TRACE /\ st.PANEL /\ ~st.RESPONSE_HEADERS}

ThreadRequests == {MkRequest("GET", TRUE, TRUE), MkRequest("POST", FALSE, FALSE)}

ThreadResponses ==
    {MkResponse(<<"text/html">>, <<>>, TRUE, BodyPanel, TRUE),
     MkResponse(<<"text/html">>, <<>>, FALSE, BodyMissing, FALSE)}

InitThreads == Init /\ settings \in ThreadSettings

NextThreads == Step(Threads, ThreadRequests, {TRUE}, ThreadResponses, {0})

SpecThreads == InitThreads /\ [][NextThreads]_vars

\* One thread under the handler's request cycle and every way of configuring
\* the options, each of them set, cleared or left out of the settings; a
\* staff and an anonymous request, a page that is rewritten, the same page
\* gzip-encoded and a page whose placeholder cannot be resolved.
OptionRequests == {MkRequest("GET", TRUE, TRUE), MkRequest("GET", FALSE, FALSE)}

OptionResponses ==
    {MkResponse(<<"text/html">>, <<>>, TRUE, BodyPanel, FALSE),
     MkResponse(<<"text/html">>, <<"gzip">>, TRUE, BodyPanel, FALSE),
     MkResponse(<<"text/html">>, <<>>, FALSE, BodyMissing, FALSE)}

InitOptions ==
    /\ settings \in OptionSettings
    /\ threadLocal = [t \in Threads |-> 0]
    /\ heap = <<>>
    /\ pc = [t \in Threads |-> "idle"]
    /\ request = [t \in Threads |-> NoRequest]
    /\ response = [t \in Threads |-> NoResponse]
    /\ result = [t \in Threads |-> "none"]
    /\ seen = [t \in Threads |-> NoSeen]
    /\ calls = [t \in Threads |-> <<>>]
    /\ snapshot = [t \in Threads |-> NoMetrics]
    /\ given = [t \in Threads |-> NoResponse]
    /\ faulty = [t \in Threads |-> 0]
    /\ store = <<>>
    /\ finished = [t \in Threads |-> [trace |-> 0, phase |-> "none"]]

NextOptions == Step({1}, OptionRequests, {TRUE}, OptionResponses, 0..1)

SpecOptions == InitOptions /\ [][NextOptions]_vars

\* ------------------------------------------------------------------------
\* The two helpers on their own
\* ------------------------------------------------------------------------

AllOn == [ENABLE |-> TRUE, RESPONSE_HEADERS |-> TRUE, TRACE |-> TRUE, PANEL |-> TRUE]

\* The state before a call of a helper on thread 1: where says which
\* helper, resp is the response (or the content) and metrics the snapshot
\* it is called with.
CallInit(where, resp, metrics) ==
    /\ settings = AllOn
    /\ threadLocal = [t \in Threads |-> 0]
    /\ heap = <<>>
    /\ pc = [t \in Threads |-> IF t = 1 THEN where ELSE "idle"]
    /\ request = [t \in Threads |-> NoRequest]
    /\ response = [t \in Threads |-> NoResponse]
    /\ result = [t \in Threads |-> "none"]
    /\ seen = [t \in Threads |-> NoSeen]
    /\ calls = [t \in Threads |-> <<>>]
    /\ snapshot = [t \in Threads |-> IF t = 1 THEN metrics ELSE NoMetrics]
    /\ given = [t \in Threads |-> IF t = 1 THEN resp ELSE NoResponse]
    /\ faulty = [t \in Threads |-> 0]
    /\ store = <<>>
    /\ finished = [t \in Threads |-> [trace |-> 0, phase |-> "none"]]

\* Module and metric names for add_response_headers: lower and mixed case,
\* with a space, with a hyphen.
HeaderNames ==
    {<<"d", "b">>, <<"D", "b">>, <<"q", " ", "c">>, <<"q", "-", "c">>,
     <<"d", "b", "-", "q">>, <<"c">>}

\* The snapshot that holds the pairs p (value 1) and q (value 2).
TwoPairMetrics(p, q) ==
    [m \in {p[1], q[1]} |->
        [k \in {x[2] : x \in {y \in {p, q} : y[1] = m}} |->
            IF <<m, k>> = p THEN 1 ELSE 2]]

HeaderMetrics ==
    {TwoPairMetrics(p, q) :
        p \in HeaderNames \X HeaderNames, q \in HeaderNames \X HeaderNames}

\* add_response_headers(response, metrics) on a response without headers.
AddResponseHeaders(t, order) ==
    /\ pc[t] = "headers"
    /\ pc' = [pc EXCEPT ![t] = "headers_done"]
    /\ response' = [response EXCEPT ![t] =
                       [given[t] EXCEPT !.headers =
                           add_response_headers(given[t].headers, snapshot[t], order)]]
    /\ UNCHANGED <<settings, threadLocal, heap, request, result, seen, calls, snapshot,
                   given, faulty, store, finished>>

InitHeaders == \E metrics \in HeaderMetrics : CallInit("headers", NoResponse, metrics)

NextHeaders == \E order \in ItemOrders(snapshot[1]) : AddResponseHeaders(1, order)

SpecHeaders == InitHeaders /\ [][NextHeaders]_vars

\* The number of pieces a page content is put together from.
MaxPieces == 3

PM == <<"m">>

PM1 == <<"m", "1">>

PK == <<"k">>

PZ == <<"z">>

\* The pieces of a page: text, a digit, a placeholder of a metric the
\* snapshots hold, one of a metric they do not hold, and the head and the
\* tail of a placeholder.
Pieces ==
    {<<"x">>, <<"1">>, Marker(PM, PK), Marker(PM, PZ), <<OPEN, "m">>, <<MID, "k", CLOSE>>}

RECURSIVE Contents(_)
Contents(n) ==
    IF n = 0 THEN {<<>>}
    ELSE Contents(n - 1) \cup {c \o p : c \in Contents(n - 1), p \in Pieces}

\* Snapshots: one module, a two-digit value, two modules.
SubstMetrics ==
    {(PM :> (PK :> 1)), (PM :> (PK :> 12)), (PM :> (PK :> 1)) @@ (PM1 :> (PK :> 2))}

\* replace_templatetag_placeholders(content, metrics)
ReplacePlaceholders(t) ==
    LET r == replace_templatetag_placeholders(given[t].content, snapshot[t])
    IN  /\ pc[t] = "subst"
        /\ pc' = [pc EXCEPT ![t] = "subst_done"]
        /\ result' = [result EXCEPT ![t] = IF r.raised THEN "KeyError" ELSE "returned"]
        /\ response' = [response EXCEPT ![t] = [given[t] EXCEPT !.content = r.content]]
        /\ UNCHANGED <<settings, threadLocal, heap, request, seen, calls, snapshot,
                       given, faulty, store, finished>>

InitSubst ==
    \E content \in Contents(MaxPieces), metrics \in SubstMetrics :
        CallInit("subst", [NoResponse EXCEPT !.content = content], metrics)

NextSubst == ReplacePlaceholders(1)

SpecSubst == InitSubst /\ [][NextSubst]_vars

\* ------------------------------------------------------------------------
\* Properties
\* ------------------------------------------------------------------------

Ended(t) == pc[t] \in {"responded", "raised"}

\* C1: when a module's get_metrics fails while process_response builds the
\* snapshot, process_response still returns the response and the snapshot
\* holds the metrics of every other module.
C1_ModuleFailureTolerated ==
    \A t \in Threads :
        (Ended(t) /\ faulty[t] # 0) =>
            /\ result[t] = "returned"
            /\ \A i \in 1..Len(ModuleOrder) :
                   i # faulty[t] => ModuleOrder[i] \in DOMAIN snapshot[t]

\* C2: two requests active at the same time on two threads never share a
\* trace: the trace each hook gets is the one installed for its own thread,
\* no other thread has it installed, and its request and response
\* references, root label, persist flags and metrics are those of the
\* thread's own request.
C2_ThreadsIsolated ==
    \A t \in Threads :
        /\ \A u \in Threads \ {t} : threadLocal[t] # 0 => threadLocal[u] # threadLocal[t]
        /\ seen[t].req # 0 => seen[t].req = threadLocal[t]
        /\ seen[t].resp # 0 => seen[t].resp = threadLocal[t]
        /\ threadLocal[t] # 0 =>
               LET tr == heap[threadLocal[t]]
               IN  /\ tr.request \in {0, t}
                   /\ tr.response \in {0, t}
                   /\ tr.request = t => tr.label = <<request[t].method, request[t].path>>
                   /\ tr.persist_log => should_return_trace_header(settings, request[t])
                   /\ tr.persist_details => should_replace_template_tags(settings, request[t])
                   /\ snapshot[t] # NoMetrics =>
                          snapshot[t][DB][QUERY_COUNT] = tr.modules[DB]

\* Both threads have answered, a staff request on one and an anonymous one
\* on the other, each with its own trace and its own persist flag.
C2_Witness ==
    /\ pc[1] = "responded" /\ pc[2] = "responded"
    /\ threadLocal[1] # 0 /\ threadLocal[2] # 0
    /\ request[1].isStaff /\ ~request[2].isStaff
    /\ heap[threadLocal[1]].persist_log /\ ~heap[threadLocal[2]].persist_log
    /\ heap[threadLocal[1]].response = 1 /\ heap[threadLocal[2]].response = 2

\* C3: within one request process_request and process_response get the same
\* trace from RequestTrace.instance(), and a trace got after the
\* request_finished teardown is not the one torn down.
C3_SameTraceWithinRequest ==
    \A t \in Threads :
        /\ (seen[t].req # 0 /\ seen[t].resp # 0) => seen[t].req = seen[t].resp
        /\ seen[t].req # 0 => seen[t].req # finished[t].trace
        /\ seen[t].resp # 0 => seen[t].resp # finished[t].trace

\* A second request on a thread whose first trace was torn down: both hooks
\* got the same, new trace.
C3_Witness ==
    /\ finished[1].trace # 0
    /\ seen[1].req # 0
    /\ seen[1].resp = seen[1].req

\* C4: the store is written only by the request_finished step of a request
\* whose process_response has run, only when persist_log or persist_details
\* is set on that request's trace, one write under the trace's identity,
\* which no earlier write used.
C4_PersistedOnceAfterFinish ==
    [][store' # store =>
          \E t \in Threads :
              /\ pc[t] \in {"responded", "raised"}
              /\ pc'[t] = "idle"
              /\ threadLocal[t] # 0
              /\ heap[threadLocal[t]].persist_log \/ heap[threadLocal[t]].persist_details
              /\ store' = Append(store, [id |-> threadLocal[t],
                                         log |-> heap[threadLocal[t]].persist_log,
                                         details |-> heap[threadLocal[t]].persist_details])
              /\ \A i \in 1..Len(store) : store[i].id # threadLocal[t]]_vars

\* One request was persisted and a later request, with neither flag set,
\* finished without a write.
C4_Witness ==
    /\ Len(store) = 1
    /\ pc[1] = "idle"
    /\ finished[1].trace # 0
    /\ finished[1].trace # store[1].id

\* C5: once request_finished has run, the thread has no trace installed,
\* however the request ended.
C5_ClearedAtFinish ==
    \A t \in Threads : pc[t] = "idle" => threadLocal[t] = 0

\* One thread's request failed before process_response, the other's failed
\* inside process_response; both had a trace and both are cleared.
C5_Witness ==
    /\ pc[1] = "idle" /\ finished[1].phase = "aborted" /\ finished[1].trace # 0
    /\ pc[2] = "idle" /\ finished[2].phase = "raised" /\ finished[2].trace # 0
    /\ threadLocal[1] = 0 /\ threadLocal[2] = 0

\* C6: a response carries X-TraceUrl only when the request has a user, the
\* user is staff and the trace option is on; persist_log is set on the trace
\* in exactly the process_response calls that add the header, and for any
\* other request the header is absent and persist_log is false.
C6_TraceHeaderOnlyForStaff ==
    \A t \in Threads :
        Ended(t) =>
            LET hdr == XTRACEURL \in DOMAIN response[t].headers
                qualifies == request[t].hasUser /\ request[t].isStaff /\ settings.TRACE
                plog == seen[t].resp # 0 /\ heap[seen[t].resp].persist_log
            IN  /\ hdr => qualifies
                /\ hdr <=> plog
                /\ ~qualifies => (~hdr /\ ~plog)

\* process_response has added the header for a staff request and has set
\* persist_log.
C6_Witness ==
    /\ pc[1] = "responded"
    /\ XTRACEURL \in DOMAIN response[1].headers
    /\ request[1].isStaff
    /\ seen[1].resp # 0 /\ heap[seen[1].resp].persist_log

\* C7: after add_response_headers every (module, metric) pair of the
\* snapshot has its header X-Speedbar-<Module>-<Metric> carrying that pair's
\* value, and there are as many headers as pairs.
C7_OneHeaderPerPair ==
    \A t \in Threads :
        pc[t] = "headers_done" =>
            /\ \A p \in Pairs(snapshot[t]) :
                   /\ HeaderName(p[1], p[2]) \in DOMAIN response[t].headers
                   /\ response[t].headers[HeaderName(p[1], p[2])]
                          = ToStr(snapshot[t][p[1]][p[2]])
            /\ Cardinality(DOMAIN response[t].headers) = Cardinality(Pairs(snapshot[t]))

\* The text that has the value of each marker of ms, from the k-th on, in
\* the marker's place and the text of s around the markers as it is.
RECURSIVE Splice(_, _, _, _)
Splice(s, ms, k, metrics) ==
    LET from == IF k = 1 THEN 1 ELSE ms[k - 1].end + 1
    IN  IF k > Len(ms) THEN SubSeq(s, from, Len(s))
        ELSE SubSeq(s, from, ms[k].start - 1)
                 \o ToStr(metrics[ms[k].module][ms[k].metric])
                 \o Splice(s, ms, k + 1, metrics)

\* The positions of that text that hold a token of a substituted value;
\* shift is how far the text before the k-th marker has moved.
RECURSIVE ValuePositions(_, _, _, _)
ValuePositions(ms, k, shift, metrics) ==
    IF k > Len(ms) THEN {}
    ELSE LET n == Len(ToStr(metrics[ms[k].module][ms[k].metric]))
             at == ms[k].start + shift
         IN  (at..(at + n - 1))
                 \cup ValuePositions(ms, k + 1,
                                     shift + n - (ms[k].end - ms[k].start + 1), metrics)

Substituted(t) == pc[t] = "subst_done" /\ result[t] = "returned"

\* C8 as stated: the returned content has every marker of the content
\* replaced by the string form of its metric's value and all other text
\* unchanged, and holds no marker whose key is in the snapshot.
C8_NoResolvedMarkerLeft ==
    \A t \in Threads :
        Substituted(t) =>
            LET out == response[t].content
            IN  /\ out = Splice(given[t].content, Matches(given[t].content, 1), 1,
                                snapshot[t])
                /\ \A i \in 1..Len(out) :
                       MatchAt(out, i).ok =>
                           ~HasKey(snapshot[t], MatchAt(out, i).module, MatchAt(out, i).metric)

\* C8 (amended): the returned content has every marker of the content
\* replaced by the string form of its metric's value and all other text
\* unchanged; a marker is left in it only where a substituted value has
\* become part of the marker.
C8_MarkersReplacedOnce ==
    \A t \in Threads :
        Substituted(t) =>
            LET out == response[t].content
                ms == Matches(given[t].content, 1)
            IN  /\ out = Splice(given[t].content, ms, 1, snapshot[t])
                /\ \A i \in 1..Len(out) :
                       MatchAt(out, i).ok =>
                           (i..MatchAt(out, i).end)
                               \cap ValuePositions(ms, 1, 0, snapshot[t]) # {}

\* A content with two markers and text around them was substituted.
C8_Witness ==
    /\ Substituted(1)
    /\ Len(Matches(given[1].content, 1)) = 2
    /\ Len(given[1].content) > 10
    /\ \A i \in 1..Len(response[1].content) : ~MatchAt(response[1].content, i).ok

\* process_response gets as far as the substitution pass: the request is by
\* a staff user, the response is HTML, not gzip-encoded and decodable, and
\* no module failed.
Rewrites(t) ==
    /\ Ended(t) /\ settings.ENABLE /\ faulty[t] = 0
    /\ should_replace_template_tags(settings, request[t])
    /\ ~HasGzip(Get(given[t].headers, CONTENT_ENCODING, <<>>))
    /\ SplitFirst(Get(given[t].headers, CONTENT_TYPE, <<>>)) \in HTML_TYPES
    /\ Decodable(given[t].content)

HasMissing(content, metrics) ==
    \E n \in 1..Len(Matches(content, 1)) :
        ~HasKey(metrics, Matches(content, 1)[n].module, Matches(content, 1)[n].metric)

\* C9: when a placeholder of the content names a module or metric the
\* snapshot does not hold, process_response ends with the KeyError and the
\* response content is what it was, also when another placeholder of the
\* content could be resolved.
C9_MissingKeyFailsWholePass ==
    \A t \in Threads :
        (Rewrites(t) /\ HasMissing(smart_unicode(given[t].content), snapshot[t])) =>
            /\ result[t] = "KeyError"
            /\ pc[t] = "raised"
            /\ response[t].content = given[t].content

\* The content held a resolvable placeholder before the unresolvable one.
C9_Witness ==
    /\ Rewrites(1)
    /\ given[1].content = BodyMissing
    /\ HasKey(snapshot[1], Matches(BodyMissing, 1)[1].module, Matches(BodyMissing, 1)[1].metric)
    /\ result[1] = "KeyError"
    /\ response[1].content = BodyMissing

\* C10: process_response asks each module for its metrics at most once, in
\* registration order, and every module exactly once when it builds the
\* snapshot; the header values and the values substituted into the page are
\* those of that snapshot, whatever the modules have recorded since.
C10_OneSnapshot ==
    \A t \in Threads :
        /\ Len(calls[t]) <= Len(ModuleOrder)
        /\ calls[t] = SubSeq(ModuleOrder, 1, Len(calls[t]))
        /\ (Ended(t) /\ snapshot[t] # NoMetrics) =>
               /\ calls[t] = ModuleOrder
               /\ settings.RESPONSE_HEADERS =>
                      \A p \in Pairs(snapshot[t]) :
                          Get(response[t].headers, HeaderName(p[1], p[2]), <<>>)
                              = ToStr(snapshot[t][p[1]][p[2]])
               /\ (Rewrites(t) /\ result[t] = "returned") =>
                      LET text == smart_unicode(given[t].content)
                          sub == Splice(text, Matches(text, 1), 1, snapshot[t])
                      IN  response[t].content =
                              smart_str(IF settings.PANEL
                                        THEN ReplaceToken(sub, PANELPH,
                                                 reverse("speedbar_panel", seen[t].resp))
                                        ELSE sub)

\* A lazy page was rendered after the snapshot was taken: the template
\* module has recorded more than the snapshot says, and the headers and the
\* page were written.
C10_Witness ==
    /\ pc[1] = "responded" /\ Rewrites(1)
    /\ settings.RESPONSE_HEADERS
    /\ given[1].hasRender /\ given[1].content = BodyPanel
    /\ heap[seen[1].resp].modules[TPL] > snapshot[1][TPL][RENDER_COUNT]
    /\ heap[seen[1].resp].modules[DB] > 0

\* The value of an option as the specification gives it: what the settings
\* say, and for an option they leave out, on unless it is the response
\* headers.
Option(name) ==
    IF name \in DOMAIN settings THEN settings[name] ELSE name # "RESPONSE_HEADERS"

IsSpeedbarHeader(n) == n # <<>> /\ Head(n) = "X-Speedbar-"

\* The trace process_response of thread t worked on.
TraceOfResponse(t) == heap[seen[t].resp]

\* The page handed to process_response on thread t is one it rewrites: the
\* user is staff, the response is HTML, not gzip-encoded and decodable, no
\* module failed and every placeholder was resolved.
PageRewritten(t) ==
    /\ faulty[t] = 0 /\ result[t] = "returned"
    /\ request[t].hasUser /\ request[t].isStaff
    /\ ~HasGzip(Get(given[t].headers, CONTENT_ENCODING, <<>>))
    /\ SplitFirst(Get(given[t].headers, CONTENT_TYPE, <<>>)) \in HTML_TYPES
    /\ Decodable(given[t].content)

\* The effect of the response-headers option, on or off: the X-Speedbar-
\* headers of the response are those of the snapshot, or none.
HeadersEffect(t, on) ==
    /\ {n \in DOMAIN response[t].headers : IsSpeedbarHeader(n)}
           = IF on /\ faulty[t] = 0
             THEN {HeaderName(p[1], p[2]) : p \in Pairs(snapshot[t])}
             ELSE {}
    /\ (on /\ faulty[t] = 0) =>
           \A p \in Pairs(snapshot[t]) :
               response[t].headers[HeaderName(p[1], p[2])] = ToStr(snapshot[t][p[1]][p[2]])

\* The effect of the trace-header option, on or off: X-TraceUrl and
\* persist_log, for a staff request.
TraceEffect(t, on) ==
    LET traced == on /\ faulty[t] = 0 /\ request[t].hasUser /\ request[t].isStaff
    IN  /\ (XTRACEURL \in DOMAIN response[t].headers) <=> traced
        /\ TraceOfResponse(t).persist_log <=> traced
        /\ traced => response[t].headers[XTRACEURL]
                         = reverse("speedbar_trace", seen[t].resp)

\* The effect of the panel option, on or off: the panel URL in the page and
\* persist_details, for a page that is rewritten.
PanelEffect(t, on) ==
    LET text == smart_unicode(given[t].content)
        sub == Splice(text, Matches(text, 1), 1, snapshot[t])
    IN  /\ TraceOfResponse(t).persist_details <=> (on /\ PageRewritten(t))
        /\ response[t].content =
               IF ~PageRewritten(t) THEN given[t].content
               ELSE smart_str(IF on
                              THEN ReplaceToken(sub, PANELPH,
                                       reverse("speedbar_panel", seen[t].resp))
                              ELSE sub)

\* C11: an option the settings leave out is on, the response headers off.
\* With the master flag off no trace is created or touched, nothing is
\* persisted and process_response returns the response as it was handed in.
\* With it on, the X-Speedbar- headers are decided by the response-headers
\* option alone, X-TraceUrl and persist_log by the trace option alone, the
\* panel URL in the page and persist_details by the panel option alone, and
\* no other header is added or changed but the Content-Length of a
\* rewritten page.
C11_OptionsIndependent ==
    \A t \in Threads :
        IF ~Option("ENABLE")
        THEN /\ threadLocal[t] = 0 /\ heap = <<>> /\ store = <<>>
             /\ seen[t] = NoSeen
             /\ Ended(t) => (response[t] = given[t] /\ result[t] = "returned")
        ELSE Ended(t) =>
             /\ seen[t].resp # 0
             /\ HeadersEffect(t, Option("RESPONSE_HEADERS"))
             /\ TraceEffect(t, Option("TRACE"))
             /\ PanelEffect(t, Option("PANEL"))
             /\ \A n \in DOMAIN response[t].headers :
                    \/ IsSpeedbarHeader(n) \/ n = XTRACEURL
                    \/ /\ n \in DOMAIN given[t].headers
                       /\ (n # CONTENT_LENGTH \/ ~PageRewritten(t)) =>
                              response[t].headers[n] = given[t].headers[n]
             /\ DOMAIN given[t].headers \subseteq DOMAIN response[t].headers

\* A project that sets only the panel option, to off: the page of a staff
\* request was rewritten without the panel URL and persist_details, and it
\* got X-TraceUrl and persist_log but no X-Speedbar- header.
C11_Witness ==
    /\ DOMAIN settings = {"PANEL"} /\ ~settings["PANEL"]
    /\ pc[1] = "responded" /\ PageRewritten(1)
    /\ given[1].content = BodyPanel /\ response[1].content # BodyPanel
    /\ \E i \in 1..Len(response[1].content) : response[1].content[i] = PANELPH
    /\ ~TraceOfResponse(1).persist_details
    /\ XTRACEURL \in DOMAIN response[1].headers /\ TraceOfResponse(1).persist_log
    /\ \A n \in DOMAIN response[1].headers : ~IsSpeedbarHeader(n)

\* C12: the identity of a trace stays what it was when the trace was
\* created and no two traces have the same one; when the request cycle of a
\* thread ends, the identity in X-TraceUrl, the identity in the panel URL
\* written into the page and the key of the store write are the identity of
\* the thread's one trace, and nothing was stored under that key before.
C12_OneIdentity ==
    [][/\ \A i \in 1..Len(heap) : heap'[i].id = heap[i].id
       /\ \A i, j \in 1..Len(heap') : i # j => heap'[i].id # heap'[j].id
       /\ \A t \in Threads :
              (Ended(t) /\ pc'[t] = "idle" /\ seen[t].resp # 0) =>
                  LET id == TraceOfResponse(t).id
                      text == smart_unicode(given[t].content)
                      sub == Splice(text, Matches(text, 1), 1, snapshot[t])
                  IN  /\ XTRACEURL \in DOMAIN response[t].headers =>
                             response[t].headers[XTRACEURL] = reverse("speedbar_trace", id)
                      /\ (PageRewritten(t) /\ Option("PANEL")) =>
                             response[t].content =
                                 smart_str(ReplaceToken(sub, PANELPH,
                                               reverse("speedbar_panel", id)))
                      /\ (TraceOfResponse(t).persist_log \/ TraceOfResponse(t).persist_details) =>
                             /\ Len(store') = Len(store) + 1
                             /\ store'[Len(store')].id = id
                      /\ \A k \in 1..Len(store) : store[k].id # id
                      /\ \A k \in (Len(store) + 2)..Len(store') : store'[k].id # id
      ]_vars

\* The trace of a first request is stored under its identity while a
\* second thread holds a response whose X-TraceUrl and panel URL carry the
\* identity of its own trace.
C12_Witness ==
    /\ Len(store) = 1 /\ store[1].id # threadLocal[2]
    /\ pc[2] = "responded" /\ PageRewritten(2)
    /\ threadLocal[2] = seen[2].resp /\ TraceOfResponse(2).id = threadLocal[2]
    /\ response[2].headers[XTRACEURL] = reverse("speedbar_trace", threadLocal[2])
    /\ \E i \in 1..Len(response[2].content) :
           SubSeq(response[2].content, i, i + Len(ToStr(threadLocal[2])))
               = reverse("speedbar_panel", threadLocal[2])

\* C13: persist_details of a trace is false until process_response, and
\* after process_response it is true exactly when the panel option is on
\* and the page was rewritten (staff user, not gzip-encoded, an HTML content
\* type, the substitution pass succeeded); the content of the response is
\* then the rewritten page with the panel URL.
C13_PersistDetailsIffRewritten ==
    \A t \in Threads :
        /\ (pc[t] \in {"started", "processing", "aborted"} /\ threadLocal[t] # 0) =>
               ~heap[threadLocal[t]].persist_details
        /\ (Ended(t) /\ seen[t].resp # 0) =>
               LET text == smart_unicode(given[t].content)
                   sub == Splice(text, Matches(text, 1), 1, snapshot[t])
               IN  /\ TraceOfResponse(t).persist_details
                          <=> (settings.PANEL /\ PageRewritten(t))
                   /\ TraceOfResponse(t).persist_details =>
                          response[t].content =
                              smart_str(ReplaceToken(sub, PANELPH,
                                            reverse("speedbar_panel", seen[t].resp)))

\* An XHTML page of a staff request was rewritten with the trace header
\* off: persist_details is the one flag set.
C13_Witness ==
    /\ pc[1] = "responded" /\ seen[1].resp # 0
    /\ settings.PANEL /\ ~settings.TRACE
    /\ Get(given[1].headers, CONTENT_TYPE, <<>>) = <<"application/xhtml+xml">>
    /\ TraceOfResponse(1).persist_details /\ ~TraceOfResponse(1).persist_log
    /\ response[1].content # given[1].content

\* process_response on thread t was handed a page it is not to rewrite: the
\* user is missing or not staff, or the Content-Encoding holds gzip, or
\* the content type before the ";" is not an HTML type.
NotToRewrite(t) ==
    \/ ~request[t].hasUser \/ ~request[t].isStaff
    \/ \E i \in 1..Len(Get(given[t].headers, CONTENT_ENCODING, <<>>)) :
           Get(given[t].headers, CONTENT_ENCODING, <<>>)[i] = "gzip"
    \/ SplitFirst(Get(given[t].headers, CONTENT_TYPE, <<>>))
           \notin {<<"text/html">>, <<"application/xhtml+xml">>}

\* C14: for a request without a staff user, a response whose
\* Content-Encoding holds gzip or a response whose content type before the
\* ";" is neither text/html nor application/xhtml+xml, process_response
\* leaves the body and the Content-Length as they were and does not render
\* a lazy response, whatever placeholder markers the body holds.
C14_SkippedPageUntouched ==
    \A t \in Threads :
        (Ended(t) /\ NotToRewrite(t)) =>
            /\ response[t].content = given[t].content
            /\ (CONTENT_LENGTH \in DOMAIN response[t].headers)
                   <=> (CONTENT_LENGTH \in DOMAIN given[t].headers)
            /\ Get(response[t].headers, CONTENT_LENGTH, <<>>)
                   = Get(given[t].headers, CONTENT_LENGTH, <<>>)
            /\ response[t].rendered = given[t].rendered
            /\ (seen[t].resp # 0 /\ snapshot[t] # NoMetrics) =>
                   TraceOfResponse(t).modules[TPL] = snapshot[t][TPL][RENDER_COUNT]

\* A lazy page with placeholder markers, x-gzip encoded, was handed in for
\* a staff request: it is returned unrendered, the markers in place.
C14_Witness ==
    /\ pc[1] = "responded" /\ seen[1].resp # 0
    /\ request[1].isStaff
    /\ Get(given[1].headers, CONTENT_ENCODING, <<>>) = <<"x-", "gzip">>
    /\ Get(given[1].headers, CONTENT_TYPE, <<>>) = <<"text/html">>
    /\ given[1].hasRender /\ ~response[1].rendered
    /\ Matches(response[1].content, 1) # <<>>
    /\ response[1].content = BodyPanel

\* C15: when process_response rewrites a page that came with a non-empty
\* Content-Length, the Content-Length it returns is the length of the
\* rewritten content, counted in bytes; a response that came without the
\* header is returned without it.
C15_ContentLengthOfRewrittenPage ==
    \A t \in Threads :
        Ended(t) =>
            /\ (seen[t].resp # 0 /\ PageRewritten(t)
                    /\ Get(given[t].headers, CONTENT_LENGTH, <<>>) # <<>>) =>
                   LET text == smart_unicode(given[t].content)
                       sub == Splice(text, Matches(text, 1), 1, snapshot[t])
                       page == IF settings.PANEL
                               THEN ReplaceToken(sub, PANELPH,
                                        reverse("speedbar_panel", seen[t].resp))
                               ELSE sub
                   IN  /\ response[t].content = smart_str(page)
                       /\ response[t].headers[CONTENT_LENGTH]
                              = ToStr(Len(response[t].content))
            /\ CONTENT_LENGTH \notin DOMAIN given[t].headers =>
                   CONTENT_LENGTH \notin DOMAIN response[t].headers

\* A page with a non-ASCII character and a Content-Length was rewritten: the
\* new Content-Length is the number of bytes, which is neither the old
\* length nor the number of characters.
C15_Witness ==
    /\ pc[1] = "responded" /\ seen[1].resp # 0 /\ PageRewritten(1)
    /\ given[1].content = BodyAccent
    /\ CONTENT_LENGTH \in DOMAIN given[1].headers
    /\ response[1].headers[CONTENT_LENGTH] = ToStr(Len(response[1].content))
    /\ response[1].headers[CONTENT_LENGTH] # given[1].headers[CONTENT_LENGTH]
    /\ Len(smart_unicode(response[1].content)) < Len(response[1].content)

====
